---- MODULE Spec2Model ----
(***************************************************************************)
(* cyclonedx-rs-gem: Gemfile.lock -> CycloneDX bill of materials.          *)
(*                                                                         *)
(* The module models main (src/main.rs) as a state machine: the lockfile   *)
(* is read and parsed, every pinned source is resolved against             *)
(* rubygems.org through buffer_unordered(50) and the retry middleware of   *)
(* client.rs, the document is serialized and written, and the resolved     *)
(* gems are optionally looked up in a Nexus repository through             *)
(* buffer_unordered(3).  The program runs on tokio's current_thread        *)
(* runtime, so everything between two awaits is one atomic step; the       *)
(* awaits are the HTTP attempts of the in-flight tasks.                    *)
(*                                                                         *)
(* Specifications:                                                         *)
(*   Spec         the whole pipeline, every interleaving of the attempts   *)
(*   SpecRetry    the pipeline for one pinned source, with the responses   *)
(*                of the request in progress recorded in `history`         *)
(*   SpecWindow   the occupancy of buffer_unordered at the real ceilings   *)
(*   SpecClassify get_gem's classification of every status code            *)
(*   SpecResolve  get_gem on a 200 response, for every version list        *)
(*   SpecLicense  Gemspec::new on every result of the license lookup       *)
(*   SpecParse    parse_gemfile on every lockfile of a few lines           *)
(***************************************************************************)
EXTENDS Integers, Sequences, FiniteSets, TLC

VARIABLES
    pc,                 \* main's position (the await or call it is at)
    params,             \* config::Params: verbose, nexus_url
    lockfile,           \* the lines of Gemfile.lock on disk
    specs,              \* Vec<bundler::Source> returned by parse_gemfile
    stream_pos,         \* how many items stream::iter has handed out
    in_progress,        \* BufferUnordered.in_progress_queue: item -> n_past_retries
    gem_specs_results,  \* fetch_gems_info: the collected outcomes
    gems,               \* Vec<Gemspec> returned by fetch_gems_info
    bom_written,        \* Option: the document write_bomfile put on disk
    nexus_results,      \* check_packages: the collected outcomes
    oks,                \* Vec<NexusResult> returned by check_packages
    stdout,             \* the lines printed so far
    exit,               \* how the process ended: "running" until it has
    tracing,            \* history variable switch (SpecRetry)
    history,            \* responses received by the request in progress
    window,             \* SpecWindow: occupancy of one buffer_unordered
    probe               \* the input and the result of the function a
                        \* specification of one function applies

vars == << pc, params, lockfile, specs, stream_pos, in_progress,
           gem_specs_results, gems, bom_written, nexus_results, oks,
           stdout, exit, tracing, history, window, probe >>

pipelineVars == << pc, params, lockfile, specs, stream_pos, in_progress,
                   gem_specs_results, gems, bom_written, nexus_results, oks,
                   stdout, exit, tracing, history >>

\* Option<T>: None, or Some(x) with x == o[1]
None == << >>
Some(x) == << x >>

-----------------------------------------------------------------------------
(* Bounds of the model *)

\* longest lockfile GEM section the pipeline is explored with
MaxSources == 2
\* longest input the occupancy model of buffer_unordered is explored with
MaxWindowSources == 52
\* largest status code classified (http::StatusCode allows 100..=999)
MaxStatus == 999
\* longest version list get_gem is applied to
MaxVersions == 2
\* longest lockfile parse_gemfile is applied to
MaxLines == 4

-----------------------------------------------------------------------------
(* Program constants *)

\* main.rs: const CONCURRENT_REQUESTS: usize = 50
CONCURRENT_REQUESTS == 50
\* nexus.rs: const CONCURRENT_REQUESTS: usize = 3
NEXUS_CONCURRENT_REQUESTS == 3
\* client.rs get_client: build_with_max_retries(3)
GEM_MAX_RETRIES == 3
\* client.rs get_nexus_client: build_with_max_retries(5)
NEXUS_MAX_RETRIES == 5

-----------------------------------------------------------------------------
(* bundler.rs: the lockfile and its parser.  A line is a record: `indent`  *)
(* leading spaces, a first word, whether the word is all capitals, and the *)
(* parenthesised text that ends the line: an Option of its words (the      *)
(* runs between white space), each word the sequence of its '-'-separated  *)
(* segments.                                                               *)

Line(indent, word, caps, paren) ==
    [indent |-> indent, word |-> word, caps |-> caps, paren |-> paren]

\* ^[A-Z]+$
other_section_regexp(line) ==
    line.indent = 0 /\ line.caps /\ line.paren = None

\* ^GEM$
gem_section_regexp(line) ==
    line.indent = 0 /\ line.word = "GEM" /\ line.paren = None

\* ^\s{4}(\S+?)\s+?\((\S+?)\)$
spec_regexp(line) ==
    /\ line.indent = 4
    /\ line.word # ""
    /\ line.paren # None
    /\ Len(line.paren[1]) = 1

RECURSIVE JoinDash(_)
JoinDash(segs) ==
    IF Len(segs) = 1 THEN segs[1]
    ELSE segs[1] \o "-" \o JoinDash(Tail(segs))

\* version_str.split_once('-')
parse_gem_version(segs) ==
    IF Len(segs) > 1
    THEN << segs[1], Some(JoinDash(Tail(segs))) >>
    ELSE << segs[1], None >>

Source(name, version, platform) ==
    [name |-> name, version |-> version, platform |-> platform]

RECURSIVE parse_lines_to_the_end(_, _, _)
\* a loop that does not stop at the section after GEM
parse_lines_to_the_end(lines, gems_section, acc) ==
    IF lines = << >> THEN acc
    ELSE LET line == Head(lines) IN
         IF other_section_regexp(line)
         THEN parse_lines_to_the_end(Tail(lines),
                  gems_section \/ gem_section_regexp(line), acc)
         ELSE IF gems_section /\ spec_regexp(line)
              THEN LET version_info == parse_gem_version(line.paren[1][1]) IN
                   parse_lines_to_the_end(Tail(lines), gems_section,
                       Append(acc, Source(line.word, version_info[1],
                                          version_info[2])))
              ELSE parse_lines_to_the_end(Tail(lines), gems_section, acc)

parse_gemfile_to_the_end(gemfile_content) ==
    parse_lines_to_the_end(gemfile_content, FALSE, << >>)

RECURSIVE parse_lines(_, _, _)
\* the for loop of parse_gemfile over the remaining lines
parse_lines(lines, gems_section, acc) ==
    IF lines = << >> THEN acc
    ELSE LET line == Head(lines) IN
         IF other_section_regexp(line)
         THEN IF gem_section_regexp(line)
              THEN parse_lines(Tail(lines), TRUE, acc)
              ELSE IF gems_section
                   THEN acc                                   \* break
                   ELSE parse_lines(Tail(lines), gems_section, acc)
         ELSE IF gems_section /\ spec_regexp(line)
              THEN LET version_info == parse_gem_version(line.paren[1][1]) IN
                   parse_lines(Tail(lines), gems_section,
                       Append(acc, Source(line.word, version_info[1],
                                          version_info[2])))
              ELSE parse_lines(Tail(lines), gems_section, acc)

parse_gemfile(gemfile_content) == parse_lines(gemfile_content, FALSE, << >>)

\* Source::get_source
get_source(source) == << source.name, source.version, source.platform >>

\* gems a lockfile of the pipeline pins, in lockfile order
GemNames == << "rails", "nokogiri", "rake", "puma", "rack" >>

PinnedLine(i) ==
    Line(4, GemNames[1 + ((i - 1) % Len(GemNames))], FALSE,
         IF i % 2 = 0 THEN Some(<< << "1.0.0", "arm64", "darwin" >> >>)
                      ELSE Some(<< << "1.0.0" >> >>))

\* a Gemfile.lock with n entries in its GEM section
Gemfile(n) ==
    << Line(0, "GEM", TRUE, None),
       Line(2, "remote:", FALSE, None),
       Line(2, "specs:", FALSE, None) >>
    \o [i \in 1..n |-> PinnedLine(i)]
    \o << Line(6, "rack", FALSE, Some(<< << ">=" >>, << "2.0" >> >>)),
          Line(0, "", FALSE, None),
          Line(0, "PLATFORMS", TRUE, None),
          Line(2, "ruby", FALSE, None) >>

-----------------------------------------------------------------------------
(* client.rs: the retry middleware.  An attempt ends in a response         *)
(* (status, body) or in a transport error.                                 *)

Response(status, body) == [ok |-> TRUE, status |-> status, body |-> body]
TransportError(kind) == [ok |-> FALSE, error |-> kind]

\* reqwest_retry::default_on_request_failure
default_on_request_failure(error) ==
    IF error \in {"timeout", "connect"} THEN "Transient" ELSE "Fatal"

\* reqwest_retry::default_on_request_success, the strategy of
\* RetryTransientMiddleware::new_with_policy
default_on_request_success(status) ==
    IF status >= 500 /\ status <= 599 THEN "Transient"
    ELSE IF status >= 400 /\ status <= 499 /\ status # 408 /\ status # 429
         THEN "Fatal"
    ELSE IF status >= 200 /\ status <= 299 THEN "None"
    ELSE IF status = 408 \/ status = 429 THEN "Transient"
    ELSE "Fatal"

\* a strategy without the 404 arm
RetryAll(res) ==
    IF res.ok THEN "Transient" ELSE default_on_request_failure(res.error)

\* a strategy that retries the failed statuses only
RetryFailedExcept404(res) ==
    IF res.ok
    THEN IF res.status >= 400 /\ res.status # 404 THEN "Transient" ELSE "None"
    ELSE default_on_request_failure(res.error)

\* RetryAllExcept404::handle; Option<Retryable> as "None", "Transient", "Fatal"
RetryAllExcept404(res) ==
    IF res.ok
    THEN IF res.status = 404 THEN "None" ELSE "Transient"
    ELSE default_on_request_failure(res.error)

\* a strategy that retries whatever the attempt ended in
RetryEveryOutcome(res) == "Transient"

\* the strategy get_nexus_client builds the middleware with
DefaultRetryableStrategy(res) ==
    IF res.ok
    THEN default_on_request_success(res.status)
    ELSE default_on_request_failure(res.error)

\* a policy that allows one retry more
should_retry_inclusive(n_past_retries, max_n_retries) ==
    n_past_retries <= max_n_retries

\* a policy that counts the first attempt as a retry
should_retry_counting_first(n_past_retries, max_n_retries) ==
    n_past_retries + 1 < max_n_retries

\* ExponentialBackoff::should_retry under build_with_max_retries
should_retry(n_past_retries, max_n_retries) == n_past_retries < max_n_retries

\* a middleware that stops retrying at the first 200
gem_client_retries_until_ok(res, n_past_retries) ==
    /\ RetryAllExcept404(res) = "Transient"
    /\ ~(res.ok /\ res.status = 200)
    /\ should_retry(n_past_retries, GEM_MAX_RETRIES)

\* get_client: does the middleware send the request again after `res`?
gem_client_retries(res, n_past_retries) ==
    /\ RetryAllExcept404(res) = "Transient"
    /\ should_retry(n_past_retries, GEM_MAX_RETRIES)

\* get_nexus_client: does the middleware send the request again after `res`?
nexus_client_retries(res, n_past_retries) ==
    /\ DefaultRetryableStrategy(res) = "Transient"
    /\ should_retry(n_past_retries, NEXUS_MAX_RETRIES)

-----------------------------------------------------------------------------
(* gem.rs: the per-item resolver *)

\* Result<T, E>
Ok(value) == [tag |-> "Ok", value |-> value]
Err(kind, name, version) ==
    [tag |-> "Err",
     error |-> [kind |-> kind, name |-> name, version |-> version]]
\* Result::is_ok
is_ok(result) == result.tag = "Ok"

\* the SPDX identifiers the license table knows
KnownLicenseIds == {"MIT", "Apache-2.0"}

\* licenses::get_license: (known id, unknown name)
get_license(licenses) ==
    IF licenses = None \/ licenses[1] = << >> THEN << None, None >>
    ELSE IF licenses[1][1] \in KnownLicenseIds
         THEN << Some(licenses[1][1]), None >>
         ELSE << None, Some(licenses[1][1]) >>

\* HashSpec::new
HashSpec_new(content) == [alg |-> "SHA-256", content |-> content]

\* a match that pushes an entry for each half of the lookup result
licenses_list_of_each(license_data) ==
    (IF license_data[1] # None THEN << [id |-> license_data[1][1]] >>
                               ELSE << >>)
    \o (IF license_data[2] # None THEN << [name |-> license_data[2][1]] >>
                                   ELSE << >>)

\* Gemspec::new: the match on the lookup result (known id, unknown name)
licenses_list(license_data) ==
    IF license_data[1] # None /\ license_data[2] = None
    THEN << [id |-> license_data[1][1]] >>                 \* License::Known
    ELSE IF license_data[1] = None /\ license_data[2] # None
         THEN << [name |-> license_data[2][1]] >>          \* License::Unknown
         ELSE << >>

\* a purl that takes the platform of the registry's descriptor
Gemspec_of_registry_platform(gem_source, spec, license_data) ==
    LET name == gem_source[1]
        version == gem_source[2]
        purl == "pkg:gem/" \o name \o "@" \o version
                    \o "?platform=" \o spec.platform
    IN [name |-> name, version |-> version, purl |-> purl,
        author |-> spec.authors, description |-> spec.summary,
        hashes |-> << HashSpec_new(spec.sha) >>,
        licenses |-> licenses_list(license_data)]

\* Gemspec::new from the lookup result on: the licenses, the purl, the struct
Gemspec_of(gem_source, spec, license_data) ==
    LET name == gem_source[1]
        version == gem_source[2]
        platform == gem_source[3]
        purl == IF platform # None
                THEN "pkg:gem/" \o name \o "@" \o version
                         \o "?platform=" \o platform[1]
                ELSE "pkg:gem/" \o name \o "@" \o version
    IN [name |-> name, version |-> version, purl |-> purl,
        author |-> spec.authors, description |-> spec.summary,
        hashes |-> << HashSpec_new(spec.sha) >>,
        licenses |-> licenses_list(license_data)]

\* Gemspec::new
Gemspec_new(gem_source, spec) ==
    Gemspec_of(gem_source, spec, get_license(spec.licenses))

\* a closure that compares the number alone
version_matches_any_platform(item, version, platform) ==
    item.number = version

\* the closure of find_version_gem's find
version_matches(item, version, platform) ==
    IF platform # None
    THEN item.number = version /\ item.platform = platform[1]
    ELSE item.number = version

\* a find that takes the first descriptor whatever its number and platform
find_first_unfiltered(gem_list, version, platform) ==
    IF gem_list = << >> THEN None ELSE Some(Head(gem_list))

RECURSIVE find_first(_, _, _)
\* Iterator::find over the version descriptors
find_first(gem_list, version, platform) ==
    IF gem_list = << >> THEN None
    ELSE IF version_matches(Head(gem_list), version, platform)
         THEN Some(Head(gem_list))
         ELSE find_first(Tail(gem_list), version, platform)

\* a body serde_json cannot read
NotJson == [read |-> TRUE, json |-> FALSE]
\* a body whose transfer fails (response.text() / response.json() errors)
BrokenBody == [read |-> FALSE]
\* a body that is a JSON array of version descriptors
JsonList(list) == [read |-> TRUE, json |-> TRUE, list |-> list]

\* find_version_gem
find_version_gem(gem_data, gem_source) ==
    IF gem_data.json
    THEN find_first(gem_data.list, gem_source[2], gem_source[3])
    ELSE None

\* the match with the 400..=499 arm ahead of the 404 arm
classify_status_reordered(status, body, gem_source) ==
    LET name == gem_source[1]
        version == gem_source[2]
    IN IF status = 200
       THEN IF ~body.read
            THEN Err("Transport", name, version)
            ELSE LET gem == find_version_gem(body, gem_source) IN
                 IF gem # None
                 THEN Ok(Gemspec_new(gem_source, gem[1]))
                 ELSE Err("VersionNotFound", name, version)
       ELSE IF status >= 400 /\ status <= 499
            THEN Err("ClientError", name, version)
       ELSE IF status = 404 THEN Err("PackageNotFound", name, version)
       ELSE IF status >= 500 /\ status <= 599
            THEN Err("ServerError", name, version)
       ELSE Err("UnknownError", name, version)

\* the match of get_gem on the status of the response
classify_status(status, body, gem_source) ==
    LET name == gem_source[1]
        version == gem_source[2]
    IN IF status = 200
       THEN IF ~body.read
            THEN Err("Transport", name, version)          \* text().await?
            ELSE LET gem == find_version_gem(body, gem_source) IN
                 IF gem # None
                 THEN Ok(Gemspec_new(gem_source, gem[1]))
                 ELSE Err("VersionNotFound", name, version)
       ELSE IF status = 404 THEN Err("PackageNotFound", name, version)
       ELSE IF status >= 400 /\ status <= 499
            THEN Err("ClientError", name, version)
       ELSE IF status >= 500 /\ status <= 599
            THEN Err("ServerError", name, version)
       ELSE Err("UnknownError", name, version)

\* get_gem, given what client.get(url).send() returned
get_gem(res, gem_source) ==
    IF ~res.ok
    THEN Err("Transport", gem_source[1], gem_source[2])   \* send().await?
    ELSE classify_status(res.status, res.body, gem_source)

\* version descriptors rubygems.org answers with
GemspecResponse(number, platform, licenses) ==
    [authors |-> "author", number |-> number, platform |-> platform,
     summary |-> "summary", sha |-> "sha-" \o number \o "-" \o platform,
     licenses |-> licenses]

RegistryBodies ==
    { NotJson, BrokenBody, JsonList(<< >>),
      JsonList(<< GemspecResponse("0.9.0", "ruby", None),
                  GemspecResponse("1.0.0", "ruby", Some(<< "MIT" >>)) >>),
      JsonList(<< GemspecResponse("1.0.0", "java", Some(<< >>)),
                  GemspecResponse("1.0.0", "arm64-darwin",
                                  Some(<< "Nonstandard" >>)) >>) }

\* what one attempt of a registry lookup can end in
RegistryOutcomes ==
    { Response(200, b) : b \in RegistryBodies }
    \cup { Response(s, NotJson) : s \in {302, 403, 404, 500} }
    \cup { TransportError(k) : k \in {"connect", "body"} }

-----------------------------------------------------------------------------
(* nexus.rs: the per-item verifier *)

\* a body that is a JSON object; `items` is the Option of its items array
\* (None when the key is missing or its value is not an array)
JsonObject(items) == [read |-> TRUE, json |-> TRUE, items |-> items]

NexusResult(package, is_exist) ==
    [name |-> package.name, version |-> package.version,
     purl |-> package.purl, is_exist |-> is_exist]

\* a panic unwinding out of the task
Panic == [tag |-> "Panic"]

\* Nexus::send_request, given what client.get(&url).send() returned
send_request(res, name, version) ==
    IF ~res.ok THEN Err("SendRequest", name, version)
    ELSE IF ~res.body.read \/ ~res.body.json
         THEN Err("ParseResponse", name, version)
         ELSE Ok(res.body)

\* a check that takes is_empty() for the answer
check_response_is_empty(response) ==
    IF ~is_ok(response) THEN response
    ELSE IF response.value.items = None THEN Panic
    ELSE Ok(response.value.items[1] = << >>)

\* Nexus::check_response: json["items"].as_array().unwrap().is_empty()
check_response(response) ==
    IF ~is_ok(response) THEN response
    ELSE IF response.value.items = None THEN Panic
    ELSE Ok(response.value.items[1] # << >>)

\* Nexus::check_package
check_package(res, package) ==
    LET response == send_request(res, package.name, package.version)
        check_result == check_response(response)
    IN IF is_ok(check_result)
       THEN Ok(NexusResult(package, check_result.value))
       ELSE check_result

\* Url::parse of the --nexus-url argument
url_parses(repo_url) == repo_url = "https://mynexus.com"

NexusBodies ==
    { NotJson, BrokenBody, JsonObject(None), JsonObject(Some(<< >>)),
      JsonObject(Some(<< "asset" >>)) }

\* what one attempt of a repository lookup can end in
NexusOutcomes ==
    { Response(200, b) : b \in NexusBodies }
    \cup { Response(s, b) : s \in {404, 503},
                            b \in {NotJson, JsonObject(Some(<< >>))} }
    \cup { Response(429, NotJson) }
    \cup { TransportError(k) : k \in {"connect", "redirect"} }

-----------------------------------------------------------------------------
(* futures::stream::BufferUnordered, as fetch_gems_info and check_packages *)
(* drive it through collect                                                *)

\* a filling loop that admits one future too many
has_room_inclusive(len, max) == len <= max

\* the condition of poll_next's filling loop on the queue length
has_room(len, max) == len < max

\* a filling that starts the next batch only when the queue is empty
fill_in_batches(len, pos, total, max) ==
    IF len = 0
    THEN IF pos + max < total THEN pos + max ELSE total
    ELSE pos

RECURSIVE fill(_, _, _, _)
\* poll_next's filling loop: the stream position it stops at
fill(len, pos, total, max) ==
    IF has_room(len, max) /\ pos < total
    THEN fill(len + 1, pos + 1, total, max)
    ELSE pos

\* the queue after the futures of items pos+1..upto were pushed
pushed(queue, pos, upto) ==
    [j \in DOMAIN queue \cup (pos + 1 .. upto) |->
        IF j \in DOMAIN queue THEN queue[j] ELSE 0]

\* a queue that keeps the future whose outcome was collected
taken_kept(queue, i) == queue

\* a queue that drops every future once one has completed
taken_dropping_all(queue, i) == << >>

\* the queue after the future of item i completed and was taken out
taken(queue, i) == [j \in DOMAIN queue \ {i} |-> queue[j]]

\* the requests in flight
InFlight == Cardinality(DOMAIN in_progress)

RECURSIVE successes_until_error(_)
\* a collection that stops at the first error, as try_collect would
successes_until_error(results) ==
    IF results = << >> \/ Head(results).res.tag # "Ok" THEN << >>
    ELSE << Head(results).res.value >> \o successes_until_error(Tail(results))

RECURSIVE successes(_)
\* partition(Result::is_ok).0 mapped through Result::unwrap
successes(results) ==
    IF results = << >> THEN << >>
    ELSE IF is_ok(Head(results).res)
         THEN << Head(results).res.value >> \o successes(Tail(results))
         ELSE successes(Tail(results))

\* a report that stops after the first error
error_lines_of_first(results) ==
    LET failed == { k \in 1..Len(results) : ~is_ok(results[k].res) } IN
    IF failed = {} THEN << >>
    ELSE LET first == CHOOSE k \in failed : \A m \in failed : k <= m
         IN << [line |-> "error", error |-> results[first].res.error] >>

RECURSIVE error_lines(_)
\* partition(Result::is_ok).1 mapped through Result::unwrap_err and printed
error_lines(results) ==
    IF results = << >> THEN << >>
    ELSE IF is_ok(Head(results).res)
         THEN error_lines(Tail(results))
         ELSE << [line |-> "error", error |-> Head(results).res.error] >>
                  \o error_lines(Tail(results))

-----------------------------------------------------------------------------
(* main.rs: the pipeline *)

idleWindow == [stage |-> "none", max |-> 0, total |-> 0, pos |-> 0,
               len |-> 0, collected |-> 0, phase |-> "none"]
idleProbe == [status |-> 0, outcome |-> "none"]

\* the state main starts in, for a lockfile that pins n gems
InitPipeline(n, trace) ==
    /\ pc = "read_gemfilelock"
    /\ params \in [verbose : BOOLEAN,
                   nexus_url : {None, Some("https://mynexus.com"),
                                Some("mynexus")}]
    /\ lockfile = Gemfile(n)
    /\ specs = << >>
    /\ stream_pos = 0
    /\ in_progress = << >>
    /\ gem_specs_results = << >>
    /\ gems = << >>
    /\ bom_written = None
    /\ nexus_results = << >>
    /\ oks = << >>
    /\ stdout = << >>
    /\ exit = "running"
    /\ tracing = trace
    /\ history = << >>
    /\ window = idleWindow
    /\ probe = idleProbe

Init == \E n \in 0..MaxSources : InitPipeline(n, FALSE)

\* a main that notes the error and goes on to the registry stage
Bail_and_go_on(error) ==
    /\ pc' = "fetch_gems_info"
    /\ exit' = error

\* main returns Err(error): the process ends with a failure status
Bail(error) ==
    /\ pc' = "exited"
    /\ exit' = error

\* the history variable: the attempts of the stage in progress, each with the
\* retries that preceded it and the outcome it ended in
Recorded(stage, n_past_retries, res) ==
    IF tracing
    THEN Append(history, [stage |-> stage, n |-> n_past_retries, res |-> res])
    ELSE history

\* an entry of a collected outcome list: the item, the response the
\* middleware handed to the per-item operation, and the operation's result
Outcome(i, final, result) == [src |-> i, final |-> final, res |-> result]

\* main.rs 24-25: read_gemfilelock, then parse_gemfile and show_info
ReadGemfilelock ==
    /\ pc = "read_gemfilelock"
    /\ \E gemfile \in {"Ok", "NotFound", "PermissionDenied", "Other"} :
          IF gemfile = "Ok"
          THEN /\ specs' = parse_gemfile(lockfile)
               /\ stdout' = IF params.verbose
                            THEN Append(stdout, [line |-> "lockfile total",
                                                 count |-> Len(specs')])
                            ELSE stdout
               /\ pc' = "get_client"
               /\ UNCHANGED exit
          ELSE /\ Bail("Err: read_gemfilelock " \o gemfile)
               /\ UNCHANGED << specs, stdout >>
    /\ UNCHANGED << params, lockfile, stream_pos, in_progress,
                    gem_specs_results, gems, bom_written, nexus_results, oks,
                    tracing, history, window, probe >>

\* main.rs 27: client::get_client()?
GetClient ==
    /\ pc = "get_client"
    /\ \/ pc' = "fetch_gems_info" /\ UNCHANGED exit
       \/ Bail("Err: get_client")
    /\ UNCHANGED << params, lockfile, specs, stream_pos, in_progress,
                    gem_specs_results, gems, bom_written, nexus_results, oks,
                    stdout, tracing, history, window, probe >>

\* main.rs 52-59: the first poll of collect: the queue is filled up to the
\* ceiling and every future in it sends its first request
FetchStart ==
    /\ pc = "fetch_gems_info"
    /\ stream_pos' = fill(0, 0, Len(specs), CONCURRENT_REQUESTS)
    /\ in_progress' = pushed(<< >>, 0, stream_pos')
    /\ gem_specs_results' = << >>
    /\ history' = << >>
    /\ pc' = "fetch_await"
    /\ UNCHANGED << params, lockfile, specs, gems, bom_written,
                    nexus_results, oks, stdout, exit, tracing, window, probe >>

\* client.rs 29-39: an attempt of item i ends in res and the middleware sends
\* the request again
GemRetry(i, res) ==
    /\ pc = "fetch_await"
    /\ i \in DOMAIN in_progress
    /\ gem_client_retries(res, in_progress[i])
    /\ in_progress' = [in_progress EXCEPT ![i] = @ + 1]
    /\ history' = Recorded("registry", in_progress[i], res)
    /\ UNCHANGED << pc, params, lockfile, specs, stream_pos,
                    gem_specs_results, gems, bom_written, nexus_results, oks,
                    stdout, exit, tracing, window, probe >>

\* gem.rs 43-85, main.rs 52-59: an attempt of item i ends in res, the
\* middleware hands res to get_gem, collect takes the outcome and
\* buffer_unordered starts the next source
GemReturn(i, res) ==
    /\ pc = "fetch_await"
    /\ i \in DOMAIN in_progress
    /\ ~gem_client_retries(res, in_progress[i])
    /\ gem_specs_results' =
           Append(gem_specs_results,
                  Outcome(i, res, get_gem(res, get_source(specs[i]))))
    /\ stream_pos' = fill(InFlight - 1, stream_pos, Len(specs),
                          CONCURRENT_REQUESTS)
    /\ in_progress' = pushed(taken(in_progress, i), stream_pos, stream_pos')
    /\ history' = Recorded("registry", in_progress[i], res)
    /\ UNCHANGED << pc, params, lockfile, specs, gems, bom_written,
                    nexus_results, oks, stdout, exit, tracing, window, probe >>

\* main.rs 61-75: collect is done; the outcomes are partitioned, the errors
\* and the total are printed when verbose
FetchCollect ==
    /\ pc = "fetch_await"
    /\ in_progress = << >>
    /\ stream_pos = Len(specs)
    /\ gems' = successes(gem_specs_results)
    /\ stdout' = IF params.verbose
                 THEN stdout \o error_lines(gem_specs_results)
                          \o << [line |-> "total received",
                                 count |-> Len(gems')] >>
                 ELSE stdout
    /\ pc' = "fetched"
    /\ UNCHANGED << params, lockfile, specs, stream_pos, in_progress,
                    gem_specs_results, bom_written, nexus_results, oks, exit,
                    tracing, history, window, probe >>

\* main.rs 28-30: fetch_gems_info returns gem_specs; bom_se::serialize(..)?
Serialize ==
    /\ pc = "fetched"
    /\ gem_specs_results' = << >>
    /\ \/ pc' = "write_bomfile" /\ UNCHANGED exit
       \/ Bail("Err: serialize")
    /\ UNCHANGED << params, lockfile, specs, stream_pos, in_progress, gems,
                    bom_written, nexus_results, oks, stdout, tracing, history,
                    window, probe >>

\* the document bom_se::serialize builds of the gems
bom_file(components) ==
    [bomFormat |-> "CycloneDX", specVersion |-> "1.5", version |-> 1,
     components |-> components]

\* main.rs 32: write_bomfile(..)?
WriteBomfile ==
    /\ pc = "write_bomfile"
    /\ \/ /\ bom_written' = Some(bom_file(gems))
          /\ pc' = "check_nexus_repository"
          /\ UNCHANGED exit
       \/ /\ Bail("Err: write_bomfile")
          /\ UNCHANGED bom_written
    /\ UNCHANGED << params, lockfile, specs, stream_pos, in_progress,
                    gem_specs_results, gems, nexus_results, oks, stdout,
                    tracing, history, window, probe >>

\* main.rs 107, 125, 36: no repository url: main returns Ok(())
NexusSkip ==
    /\ pc = "check_nexus_repository"
    /\ params.nexus_url = None
    /\ pc' = "exited"
    /\ exit' = "Ok"
    /\ UNCHANGED << params, lockfile, specs, stream_pos, in_progress,
                    gem_specs_results, gems, bom_written, nexus_results, oks,
                    stdout, tracing, history, window, probe >>

\* main.rs 108, nexus.rs 23, 68-71: Nexus::new(nexus_url)? fails and the
\* error propagates through both ? out of main
NexusNewFails ==
    /\ pc = "check_nexus_repository"
    /\ params.nexus_url # None
    /\ \/ ~url_parses(params.nexus_url[1]) /\ Bail("Err: UrlParse")
       \/ url_parses(params.nexus_url[1]) /\ Bail("Err: BuildClient")
    /\ UNCHANGED << params, lockfile, specs, stream_pos, in_progress,
                    gem_specs_results, gems, bom_written, nexus_results, oks,
                    stdout, tracing, history, window, probe >>

\* a verification stage that is started while fetch_gems_info is awaited
NexusStartNotAwaited ==
    /\ pc = "fetch_await"
    /\ in_progress # << >>
    /\ params.nexus_url # None
    /\ url_parses(params.nexus_url[1])
    /\ stream_pos' = fill(0, 0, Len(gems), NEXUS_CONCURRENT_REQUESTS)
    /\ in_progress' = pushed(<< >>, 0, stream_pos')
    /\ nexus_results' = << >>
    /\ history' = << >>
    /\ pc' = "check_await"
    /\ UNCHANGED << params, lockfile, specs, gem_specs_results, gems,
                    bom_written, oks, stdout, exit, tracing, window, probe >>

\* nexus.rs 23-29: Nexus::new succeeds; the first poll of collect fills the
\* queue up to the ceiling
NexusStart ==
    /\ pc = "check_nexus_repository"
    /\ params.nexus_url # None
    /\ url_parses(params.nexus_url[1])
    /\ stream_pos' = fill(0, 0, Len(gems), NEXUS_CONCURRENT_REQUESTS)
    /\ in_progress' = pushed(<< >>, 0, stream_pos')
    /\ nexus_results' = << >>
    /\ history' = << >>
    /\ pc' = "check_await"
    /\ UNCHANGED << params, lockfile, specs, gem_specs_results, gems,
                    bom_written, oks, stdout, exit, tracing, window, probe >>

\* client.rs 44-52: an attempt of package i ends in res and the middleware
\* sends the request again
NexusRetry(i, res) ==
    /\ pc = "check_await"
    /\ i \in DOMAIN in_progress
    /\ nexus_client_retries(res, in_progress[i])
    /\ in_progress' = [in_progress EXCEPT ![i] = @ + 1]
    /\ history' = Recorded("nexus", in_progress[i], res)
    /\ UNCHANGED << pc, params, lockfile, specs, stream_pos,
                    gem_specs_results, gems, bom_written, nexus_results, oks,
                    stdout, exit, tracing, window, probe >>

\* nexus.rs 83-123, 25-29: an attempt of package i ends in res, the
\* middleware hands res to check_package, collect takes the outcome and
\* buffer_unordered starts the next package; a panic of check_response
\* unwinds through collect and main
NexusReturn(i, res) ==
    /\ pc = "check_await"
    /\ i \in DOMAIN in_progress
    /\ ~nexus_client_retries(res, in_progress[i])
    /\ history' = Recorded("nexus", in_progress[i], res)
    /\ LET outcome == check_package(res, gems[i]) IN
       IF outcome = Panic
       THEN /\ pc' = "exited"
            /\ exit' = "panic"
            /\ in_progress' = << >>
            /\ UNCHANGED << stream_pos, nexus_results >>
       ELSE /\ nexus_results' =
                   Append(nexus_results, Outcome(i, res, outcome))
            /\ stream_pos' = fill(InFlight - 1, stream_pos, Len(gems),
                                  NEXUS_CONCURRENT_REQUESTS)
            /\ in_progress' =
                   pushed(taken(in_progress, i), stream_pos, stream_pos')
            /\ UNCHANGED << pc, exit >>
    /\ UNCHANGED << params, lockfile, specs, gem_specs_results, gems,
                    bom_written, oks, stdout, tracing, window, probe >>

\* nexus.rs 31-42: collect is done; the outcomes are partitioned and the
\* errors are printed when verbose
CheckCollect ==
    /\ pc = "check_await"
    /\ in_progress = << >>
    /\ stream_pos = Len(gems)
    /\ oks' = successes(nexus_results)
    /\ stdout' = IF params.verbose
                 THEN stdout \o error_lines(nexus_results)
                 ELSE stdout
    /\ pc' = "checked"
    /\ UNCHANGED << params, lockfile, specs, stream_pos, in_progress,
                    gem_specs_results, gems, bom_written, nexus_results, exit,
                    tracing, history, window, probe >>

\* a report that says all exist only when every gem has a result that exists
Report_of_every_gem ==
    /\ pc = "checked"
    /\ nexus_results' = << >>
    /\ stdout' = IF Len(oks) = Len(gems)
                    /\ \A j \in 1..Len(oks) : oks[j].is_exist
                 THEN Append(stdout, [line |-> "all exist"])
                 ELSE stdout \o [j \in 1..Len(gems) |->
                                   [line |-> "not found", package |->
                                       [name |-> gems[j].name,
                                        version |-> gems[j].version,
                                        purl |-> gems[j].purl,
                                        is_exist |-> FALSE]]]
    /\ pc' = "exited"
    /\ exit' = "Ok"
    /\ UNCHANGED << params, lockfile, specs, stream_pos, in_progress,
                    gem_specs_results, gems, bom_written, oks, tracing,
                    history, window, probe >>

RECURSIVE not_found_lines(_)
\* main.rs 110-121: one line per result that is not is_exist
not_found_lines(result) ==
    IF result = << >> THEN << >>
    ELSE IF ~Head(result).is_exist
         THEN << [line |-> "not found", package |-> Head(result)] >>
                  \o not_found_lines(Tail(result))
         ELSE not_found_lines(Tail(result))

\* main.rs 108-125, 36: check_packages returns Ok(oks); the report is printed
\* and main returns Ok(())
Report ==
    /\ pc = "checked"
    /\ nexus_results' = << >>
    /\ stdout' = IF not_found_lines(oks) = << >>
                 THEN Append(stdout, [line |-> "all exist"])
                 ELSE stdout \o not_found_lines(oks)
    /\ pc' = "exited"
    /\ exit' = "Ok"
    /\ UNCHANGED << params, lockfile, specs, stream_pos, in_progress,
                    gem_specs_results, gems, bom_written, oks, tracing,
                    history, window, probe >>

Next ==
    \/ ReadGemfilelock
    \/ GetClient
    \/ FetchStart
    \/ \E i \in DOMAIN in_progress, res \in RegistryOutcomes : GemRetry(i, res)
    \/ \E i \in DOMAIN in_progress, res \in RegistryOutcomes : GemReturn(i, res)
    \/ FetchCollect
    \/ Serialize
    \/ WriteBomfile
    \/ NexusSkip
    \/ NexusNewFails
    \/ NexusStart
    \/ \E i \in DOMAIN in_progress, res \in NexusOutcomes : NexusRetry(i, res)
    \/ \E i \in DOMAIN in_progress, res \in NexusOutcomes : NexusReturn(i, res)
    \/ CheckCollect
    \/ Report

Spec == Init /\ [][Next]_vars

\* the pipeline for a lockfile that pins one gem, its attempts recorded
InitRetry == InitPipeline(1, TRUE)

SpecRetry == InitRetry /\ [][Next]_vars

-----------------------------------------------------------------------------
(* The occupancy of one buffer_unordered: how many futures its queue holds *)
(* while collect drives it over `total` items under the ceiling `max`.     *)
(* Which future completes does not change the count, so the futures are    *)
(* counted, not named, and the real ceilings are explored.                 *)

idlePipeline ==
    /\ pc = "none"
    /\ params = [verbose |-> FALSE, nexus_url |-> None]
    /\ lockfile = << >>
    /\ specs = << >>
    /\ stream_pos = 0
    /\ in_progress = << >>
    /\ gem_specs_results = << >>
    /\ gems = << >>
    /\ bom_written = None
    /\ nexus_results = << >>
    /\ oks = << >>
    /\ stdout = << >>
    /\ exit = "running"
    /\ tracing = FALSE
    /\ history = << >>

\* the ceiling each stage hands to buffer_unordered
ceiling(stage) ==
    IF stage = "registry" THEN CONCURRENT_REQUESTS
                          ELSE NEXUS_CONCURRENT_REQUESTS

InitWindow ==
    /\ idlePipeline
    /\ probe = idleProbe
    /\ \E stage \in {"registry", "nexus"}, total \in 0..MaxWindowSources :
          window = [stage |-> stage, max |-> ceiling(stage), total |-> total,
                    pos |-> 0, len |-> 0, collected |-> 0, phase |-> "new"]

\* main.rs 52-59, nexus.rs 25-29: the first poll of collect fills the queue
WindowStart ==
    /\ window.phase = "new"
    /\ LET pos == fill(0, 0, window.total, window.max) IN
       window' = [window EXCEPT !.pos = pos, !.len = pos,
                                !.phase = "polling"]
    /\ UNCHANGED << pipelineVars, probe >>

\* a future of the queue completes: collect takes its outcome, polls again
\* and the filling loop runs
WindowComplete ==
    /\ window.phase = "polling"
    /\ window.len > 0
    /\ LET pos == fill(window.len - 1, window.pos, window.total, window.max)
       IN window' = [window EXCEPT !.pos = pos,
                                   !.len = window.len - 1 + (pos - window.pos),
                                   !.collected = window.collected + 1]
    /\ UNCHANGED << pipelineVars, probe >>

\* the queue is empty and the stream is done: collect returns
WindowEnd ==
    /\ window.phase = "polling"
    /\ window.len = 0
    /\ window.pos = window.total
    /\ window' = [window EXCEPT !.phase = "collected"]
    /\ UNCHANGED << pipelineVars, probe >>

NextWindow == WindowStart \/ WindowComplete \/ WindowEnd

SpecWindow == InitWindow /\ [][NextWindow]_vars

-----------------------------------------------------------------------------
(* get_gem's match on the status, for every status code *)

\* the pinned source the classification is probed with
probeSource == << "rails", "1.0.0", None >>

InitClassify ==
    /\ idlePipeline
    /\ window = idleWindow
    /\ \E status \in 100..MaxStatus :
          probe = [status |-> status, outcome |-> "none"]

\* gem.rs 53-82: a response with the probed status reaches the match
Classify ==
    /\ probe.outcome = "none"
    /\ \E body \in RegistryBodies :
          LET result == get_gem(Response(probe.status, body), probeSource)
          IN probe' = [probe EXCEPT !.outcome =
                          IF is_ok(result) THEN "Ok" ELSE result.error.kind]
    /\ UNCHANGED << pipelineVars, window >>

NextClassify == Classify

SpecClassify == InitClassify /\ [][NextClassify]_vars

-----------------------------------------------------------------------------
(* get_gem on a 200 response: find_version_gem and Gemspec::new, for every *)
(* pinned source and every version list of the bounded sets                *)

\* the k-th descriptor of a version list; its checksum tells it apart
VersionAt(k, number, platform) ==
    [GemspecResponse(number, platform, Some(<< "MIT" >>))
        EXCEPT !.sha = "sha-" \o ToString(k)]

\* the version lists of at most MaxVersions descriptors
VersionLists ==
    UNION { [1..n -> {"1.16.5", "7.0.8.4"} \X {"ruby", "arm64-darwin"}] :
              n \in 0..MaxVersions }

\* the pinned sources get_gem is applied to
PinnedSources ==
    {"nokogiri", "actioncable"} \X {"1.16.5", "7.0.8.4"}
        \X {None, Some("arm64-darwin")}

InitResolve ==
    /\ idlePipeline
    /\ window = idleWindow
    /\ \E gem_source \in PinnedSources, list \in VersionLists :
          probe = [gem_source |-> gem_source,
                   gem_list |-> [k \in DOMAIN list |->
                                    VersionAt(k, list[k][1], list[k][2])],
                   gem |-> None, result |-> None]

\* gem.rs 51-65: the registry answers 200 with the version list
ResolveGem ==
    /\ probe.result = None
    /\ LET gem_data == JsonList(probe.gem_list) IN
       probe' = [probe EXCEPT
                    !.gem = find_version_gem(gem_data, probe.gem_source),
                    !.result = Some(get_gem(Response(200, gem_data),
                                            probe.gem_source))]
    /\ UNCHANGED << pipelineVars, window >>

NextResolve == ResolveGem

SpecResolve == InitResolve /\ [][NextResolve]_vars

-----------------------------------------------------------------------------
(* Gemspec::new on every result of the license lookup *)

\* license strings a descriptor carries
LicenseStrings ==
    {"MIT", "Apache-2.0", "GPL-3.0", "BSD-3-Clause", "Ruby", "Nonstandard",
     "Custom"}

\* Option<String> over the license strings
OptionalLicense == {None} \cup { Some(l) : l \in LicenseStrings }

InitLicense ==
    /\ idlePipeline
    /\ window = idleWindow
    /\ \E known \in OptionalLicense, unknown \in OptionalLicense :
          probe = [license_data |-> << known, unknown >>, gemspec |-> None]

\* gem.rs 117-145: Gemspec::new once licenses::get_license has returned
BuildGemspec ==
    /\ probe.gemspec = None
    /\ probe' = [probe EXCEPT !.gemspec =
                    Some(Gemspec_of(probeSource,
                                    GemspecResponse("1.0.0", "ruby", None),
                                    probe.license_data))]
    /\ UNCHANGED << pipelineVars, window >>

NextLicense == BuildGemspec

SpecLicense == InitLicense /\ [][NextLicense]_vars

-----------------------------------------------------------------------------
(* parse_gemfile on every lockfile of at most MaxLines lines *)

\* the kinds of line a Gemfile.lock is made of
LockfileLines ==
    { Line(0, "GEM", TRUE, None),
      Line(0, "GIT", TRUE, None),
      Line(0, "PLATFORMS", TRUE, None),
      Line(2, "specs:", FALSE, None),
      Line(4, "actioncable", FALSE, Some(<< << "7.0.8.4" >> >>)),
      Line(4, "nokogiri", FALSE, Some(<< << "1.16.5", "arm64", "darwin" >> >>)),
      Line(6, "nio4r", FALSE, Some(<< << "~>" >>, << "2.0" >> >>)),
      Line(6, "thor", FALSE, Some(<< << "1.3.0" >> >>)) }

Lockfiles == UNION { [1..n -> LockfileLines] : n \in 0..MaxLines }

InitParse ==
    /\ idlePipeline
    /\ window = idleWindow
    /\ \E gemfile_content \in Lockfiles :
          probe = [gemfile_content |-> gemfile_content, gems |-> None]

\* bundler.rs 19-59: parse_gemfile
ParseGemfile ==
    /\ probe.gems = None
    /\ probe' = [probe EXCEPT !.gems = Some(parse_gemfile(probe.gemfile_content))]
    /\ UNCHANGED << pipelineVars, window >>

NextParse == ParseGemfile

SpecParse == InitParse /\ [][NextParse]_vars

-----------------------------------------------------------------------------
(* Properties *)

\* the positions of a collected outcome list whose result is Ok
OkPositions(results) == { k \in 1..Len(results) : is_ok(results[k].res) }

\* the kind of the error at position k of a collected outcome list
ErrorKind(results, k) == results[k].res.error.kind

\* C1: at every instant of a stage the number of tasks in flight is at most
\* the stage's ceiling, 50 in fetch_gems_info and 3 in check_packages, for
\* every input length and every order of completions.
C1_InFlightWithinCeiling ==
    /\ window.stage = "registry" => window.len <= 50
    /\ window.stage = "nexus" => window.len <= 3
    /\ window.len <= window.total - window.collected

\* C1 witness: the registry stage holds 50 tasks in flight after a task has
\* completed, with sources still waiting in the stream.
C1_Witness ==
    /\ window.stage = "registry"
    /\ window.len = 50
    /\ window.collected > 0
    /\ window.pos < window.total

\* C2: the orchestrator launches exactly one task per pinned source: every
\* source the stream has handed out is either in flight or has exactly one
\* collected outcome, no other source has any, and when the stage finishes
\* there is exactly one outcome per source.
C2_OneTaskPerSource ==
    pc \in {"fetch_await", "fetched"} =>
        /\ \A i \in 1..Len(specs) :
              Cardinality({ k \in 1..Len(gem_specs_results) :
                                gem_specs_results[k].src = i })
                + (IF i \in DOMAIN in_progress THEN 1 ELSE 0)
              = (IF i <= stream_pos THEN 1 ELSE 0)
        /\ \A k \in 1..Len(gem_specs_results) :
              gem_specs_results[k].src \in 1..Len(specs)
        /\ DOMAIN in_progress \subseteq 1..Len(specs)
        /\ pc = "fetched" => /\ Len(gem_specs_results) = Len(specs)
                             /\ stream_pos = Len(specs)
                             /\ in_progress = << >>

\* C2 witness: the stage finished for two sources whose outcomes were
\* collected in the reverse of the lockfile order.
C2_Witness ==
    /\ pc = "fetched"
    /\ Len(specs) >= 2
    /\ gem_specs_results[1].src = 2

\* C3: when M of the N sources end in a registry 404 and the others resolve,
\* fetch_gems_info returns exactly N-M artifacts, whatever the completion
\* order; an empty source list gives an empty list and no error.
C3_ResolvedCount ==
    pc = "fetched" =>
        LET notFound == { k \in 1..Len(gem_specs_results) :
                            /\ gem_specs_results[k].final.ok
                            /\ gem_specs_results[k].final.status = 404 }
        IN /\ (\A k \in 1..Len(gem_specs_results) :
                   k \in notFound \/ is_ok(gem_specs_results[k].res))
               => Len(gems) = Len(specs) - Cardinality(notFound)
           /\ Len(specs) = 0 => gems = << >> /\ exit = "running"

\* C3 witness: of two sources the one collected first ended in a 404 and the
\* other, collected second although pinned first, resolved.
C3_Witness ==
    /\ pc = "fetched"
    /\ Len(specs) = 2
    /\ gem_specs_results[1].src = 2
    /\ gem_specs_results[1].final.ok
    /\ gem_specs_results[1].final.status = 404
    /\ is_ok(gem_specs_results[2].res)
    /\ Len(gems) = 1

\* C4: after the registry stage the artifact list is exactly the successful
\* outcomes, in collection order; an outcome is successful exactly when its
\* final response is a 200 whose version list has an entry with the pinned
\* number and, when a platform is pinned, the pinned platform, and its
\* artifact carries the pinned name and version and that entry's data.
C4_ArtifactsAreTheSuccesses ==
    pc = "fetched" =>
        /\ Len(gems) = Cardinality(OkPositions(gem_specs_results))
        /\ \A k \in 1..Len(gem_specs_results) :
              LET r == gem_specs_results[k]
                  source == specs[r.src]
                  matching ==
                      IF r.final.ok /\ r.final.status = 200
                            /\ r.final.body.read /\ r.final.body.json
                      THEN { e \in 1..Len(r.final.body.list) :
                               /\ r.final.body.list[e].number = source.version
                               /\ \/ source.platform = None
                                  \/ r.final.body.list[e].platform
                                        = source.platform[1] }
                      ELSE {}
                  rank == Cardinality({ j \in OkPositions(gem_specs_results) :
                                          j <= k })
              IN /\ is_ok(r.res) <=> matching # {}
                 /\ is_ok(r.res) =>
                       /\ gems[rank] = r.res.value
                       /\ gems[rank].name = source.name
                       /\ gems[rank].version = source.version
                       /\ \E e \in matching :
                             gems[rank].hashes
                               = << [alg |-> "SHA-256",
                                     content |-> r.final.body.list[e].sha] >>

\* C4 witness: two sources, the first collected outcome an error, the second
\* a success, and the artifact list holds just the second one's artifact.
C4_Witness ==
    /\ pc = "fetched"
    /\ Len(gem_specs_results) = 2
    /\ ~is_ok(gem_specs_results[1].res)
    /\ is_ok(gem_specs_results[2].res)
    /\ gems = << gem_specs_results[2].res.value >>

\* the step collects the outcome of item i in the registry stage
Collects(i) ==
    /\ pc = "fetch_await"
    /\ i \in DOMAIN in_progress
    /\ Len(gem_specs_results') = Len(gem_specs_results) + 1
    /\ gem_specs_results'[Len(gem_specs_results')].src = i

\* C5: in the registry stage an item that fails leaves its siblings as they
\* are: the tasks in flight stay in flight with their retry counts, the
\* outcomes collected so far stay, the stage goes on and main has not
\* failed; and when every item failed the stage returns an empty list.
C5_FailureIsolation ==
    /\ [][\A i \in DOMAIN in_progress :
            (Collects(i) /\ ~is_ok(gem_specs_results'[Len(gem_specs_results')].res))
            => /\ \A j \in DOMAIN in_progress \ {i} :
                     j \in DOMAIN in_progress'
                        /\ in_progress'[j] = in_progress[j]
               /\ SubSeq(gem_specs_results', 1, Len(gem_specs_results))
                     = gem_specs_results
               /\ pc' = "fetch_await"
               /\ exit' = "running"]_vars
    /\ [](pc = "fetched" /\ OkPositions(gem_specs_results) = {}
            => gems = << >> /\ exit = "running")
    /\ [](pc \in {"fetch_await", "fetched"} => exit = "running")

\* C5 witness: the source pinned first failed and was collected first, and
\* its sibling resolved after it and is the one artifact returned.
C5_Witness ==
    /\ pc = "fetched"
    /\ Len(gem_specs_results) = 2
    /\ ~is_ok(gem_specs_results[1].res)
    /\ is_ok(gem_specs_results[2].res)
    /\ Len(gems) = 1
    /\ gems[1].name = specs[gem_specs_results[2].src].name
    /\ gem_specs_results[1].src = 1

\* C6: in every run in which the lockfile was read and the document was
\* written (it is written only after the lockfile was read), main returns
\* success, whatever happens to the items of the verification stage; stated
\* for the runs in which Nexus::new did not fail.
C6_SuccessWhateverItemsDo ==
    (pc = "exited" /\ bom_written # None
        /\ exit \notin {"Err: UrlParse", "Err: BuildClient"})
        => exit = "Ok"

\* the attempts made so far, when they are the registry stage's
RegistryHistory ==
    IF history # << >> /\ history[1].stage = "registry" THEN history ELSE << >>

\* the attempts made so far, when they are the verification stage's
NexusHistory ==
    IF history # << >> /\ history[1].stage = "nexus" THEN history ELSE << >>

\* C7: in the registry stage a 404 response is never retried: it is the
\* last attempt of its item, no request of the item is in flight after it,
\* and it is the response the resolver classifies, as PackageNotFound.
C7_NotFoundIsFinal ==
    \A k \in 1..Len(RegistryHistory) :
        (history[k].res.ok /\ history[k].res.status = 404) =>
            /\ k = Len(history)
            /\ in_progress = << >>
            /\ pc # "fetch_gems_info"
            /\ pc \in {"fetch_await", "fetched"} =>
                  /\ Len(gem_specs_results) = 1
                  /\ gem_specs_results[1].final = history[k].res
                  /\ ~is_ok(gem_specs_results[1].res)
                  /\ ErrorKind(gem_specs_results, 1) = "PackageNotFound"

\* C7 witness: the item was retried twice, the third attempt returned 404
\* and the stage ended with PackageNotFound.
C7_Witness ==
    /\ pc = "fetched"
    /\ Len(RegistryHistory) = 3
    /\ history[3].res.ok
    /\ history[3].res.status = 404
    /\ ErrorKind(gem_specs_results, 1) = "PackageNotFound"

\* C8 as claimed: no item has more than 3 requests issued for it in the
\* registry stage, nor more than 5 in the verification stage.
C8_ThreeAndFiveAttempts ==
    /\ Len(RegistryHistory) <= 3
    /\ Len(NexusHistory) <= 5

\* C8 amended: the budgets are retries on top of the first attempt: no item
\* has more than 1+3 requests issued for it in the registry stage, nor more
\* than 1+5 in the verification stage, every attempt but the first follows a
\* retry, and when the retries are used up no request stays in flight and
\* the last attempt's response is the one the per-item operation is given.
C8_RetryBudget ==
    /\ Len(RegistryHistory) <= 4
    /\ Len(NexusHistory) <= 6
    /\ \A k \in 1..Len(history) : history[k].n = k - 1
    /\ Len(RegistryHistory) = 4 =>
          /\ in_progress = << >>
          /\ pc \in {"fetch_await", "fetched"} =>
                /\ Len(gem_specs_results) = 1
                /\ gem_specs_results[1].final = history[4].res
    /\ Len(NexusHistory) = 6 =>
          /\ in_progress = << >>
          /\ pc \in {"check_await", "checked"} =>
                /\ Len(nexus_results) = 1
                /\ nexus_results[1].final = history[6].res

\* C8 witness: the registry item used up its retries: four requests were
\* issued and the fourth response is the final one.
C8_Witness ==
    /\ pc = "fetch_await"
    /\ Len(RegistryHistory) = 4
    /\ Len(gem_specs_results) = 1
    /\ gem_specs_results[1].final = history[4].res

\* a transient outcome: a 5xx response or a connection failure
IsTransient(res) ==
    IF res.ok THEN res.status >= 500 /\ res.status <= 599
              ELSE res.error \in {"connect", "timeout"}

\* a success: a 200 whose version list holds the pinned version
IsSuccess(res, source) ==
    /\ res.ok /\ res.status = 200 /\ res.body.read /\ res.body.json
    /\ \E e \in 1..Len(res.body.list) :
          /\ res.body.list[e].number = source.version
          /\ source.platform = None
                \/ res.body.list[e].platform = source.platform[1]

\* the attempts a registry lookup may take: the first and the retries
RegistryBudget == GEM_MAX_RETRIES + 1

\* C9: for one registry item with attempt budget B: while fewer than B
\* transient outcomes have come in the item is still being attempted; B-1
\* transient outcomes followed by a success resolve it; B transient
\* outcomes end it with the error its last outcome classifies to
\* (ServerError for a 5xx, the transport error for a failed send), and no
\* attempt follows.
C9_BudgetSequences ==
    LET h == RegistryHistory
        B == RegistryBudget
        transientUpTo(n) == \A k \in 1..n : IsTransient(h[k].res)
    IN /\ Len(h) <= B
       /\ (Len(h) >= 1 /\ Len(h) < B /\ transientUpTo(Len(h))) =>
             pc = "fetch_await" /\ in_progress = (1 :> Len(h))
       /\ (Len(h) = B /\ transientUpTo(B - 1)
              /\ IsSuccess(h[B].res, specs[1])) =>
             /\ in_progress = << >>
             /\ pc \in {"fetch_await", "fetched"} =>
                   is_ok(gem_specs_results[1].res)
             /\ pc # "fetch_await" => Len(gems) = 1
       /\ (Len(h) = B /\ transientUpTo(B)) =>
             /\ in_progress = << >>
             /\ pc \in {"fetch_await", "fetched"} =>
                   /\ ~is_ok(gem_specs_results[1].res)
                   /\ gem_specs_results[1].final = h[B].res
                   /\ ErrorKind(gem_specs_results, 1) =
                         (IF h[B].res.ok THEN "ServerError" ELSE "Transport")
             /\ pc # "fetch_await" => gems = << >>

\* C9 witness: three 5xx responses and then a 200 with the pinned version:
\* the stage ended with the gem resolved.
C9_Witness ==
    /\ pc = "fetched"
    /\ Len(RegistryHistory) = 4
    /\ \A k \in 1..3 : history[k].res.ok /\ history[k].res.status = 500
    /\ IsSuccess(history[4].res, specs[1])
    /\ Len(gems) = 1

\* C10: the resolver classifies the final response by its status: 404 is
\* PackageNotFound, every other status of 400-499 ClientError, every status
\* of 500-599 ServerError, every status that is neither 200 nor of 400-599
\* UnknownError, whatever the body; a 200 is decided by its body.
C10_StatusClassification ==
    probe.outcome # "none" =>
        /\ probe.status = 404 => probe.outcome = "PackageNotFound"
        /\ (probe.status >= 400 /\ probe.status <= 499 /\ probe.status # 404)
              => probe.outcome = "ClientError"
        /\ (probe.status >= 500 /\ probe.status <= 599)
              => probe.outcome = "ServerError"
        /\ (probe.status # 200 /\ (probe.status < 400 \/ probe.status > 599))
              => probe.outcome = "UnknownError"
        /\ probe.status = 200
              => probe.outcome \in {"Ok", "VersionNotFound", "Transport"}

\* C10 witness: a 404 was classified PackageNotFound.
C10_Witness ==
    /\ probe.status = 404
    /\ probe.outcome = "PackageNotFound"

\* the positions of a version list that carry the pinned number and, when a
\* platform is pinned, the pinned platform
MatchingVersions(gem_list, gem_source) ==
    { k \in 1..Len(gem_list) :
        /\ gem_list[k].number = gem_source[2]
        /\ gem_source[3] # None => gem_list[k].platform = gem_source[3][1] }

\* C11: on a 200 response the resolver selects the first entry of the
\* version list whose number is the pinned version and, when a platform is
\* pinned, whose platform is exactly the pinned one (when none is pinned,
\* the first entry with the pinned number whatever its platform); the
\* artifact is built of that entry; when no entry matches, not even one with
\* the number and another platform is taken and the outcome is
\* VersionNotFound.
C11_FirstExactMatch ==
    probe.result # None =>
        LET matching == MatchingVersions(probe.gem_list, probe.gem_source)
            result == probe.result[1]
        IN IF matching = {}
           THEN /\ probe.gem = None
                /\ ~is_ok(result)
                /\ result.error.kind = "VersionNotFound"
           ELSE LET first == CHOOSE k \in matching :
                                 \A m \in matching : k <= m
                IN /\ probe.gem = Some(probe.gem_list[first])
                   /\ is_ok(result)
                   /\ result.value.hashes =
                         << HashSpec_new(probe.gem_list[first].sha) >>

\* C11 witness: a platform is pinned, the list's first entry has the pinned
\* number on another platform and its second entry has the pinned platform:
\* the second entry was selected.
C11_Witness ==
    /\ probe.result # None
    /\ probe.gem_source[3] = Some("arm64-darwin")
    /\ Len(probe.gem_list) = 2
    /\ probe.gem_list[1].number = probe.gem_source[2]
    /\ probe.gem_list[1].platform = "ruby"
    /\ probe.gem = Some(probe.gem_list[2])
    /\ is_ok(probe.result[1])

\* C12: the purl of a resolved artifact is a function of the pinned name,
\* version and platform alone: pkg:gem/<name>@<version> when no platform is
\* pinned, pkg:gem/<name>@<version>?platform=<platform> when one is,
\* whatever the registry's descriptor holds; the artifact's name and version
\* are the pinned ones.
C12_PurlOfPinnedSource ==
    (probe.result # None /\ is_ok(probe.result[1])) =>
        LET name == probe.gem_source[1]
            version == probe.gem_source[2]
            platform == probe.gem_source[3]
            gemspec == probe.result[1].value
        IN /\ gemspec.name = name
           /\ gemspec.version = version
           /\ platform = None =>
                 gemspec.purl = "pkg:gem/" \o name \o "@" \o version
           /\ platform # None =>
                 gemspec.purl = "pkg:gem/" \o name \o "@" \o version
                                    \o "?platform=" \o platform[1]
           /\ probe.gem_source = << "nokogiri", "1.16.5", None >> =>
                 gemspec.purl = "pkg:gem/nokogiri@1.16.5"
           /\ probe.gem_source
                 = << "nokogiri", "1.16.5", Some("arm64-darwin") >> =>
                 gemspec.purl = "pkg:gem/nokogiri@1.16.5?platform=arm64-darwin"

\* C12 witness: no platform is pinned and the descriptor selected is one of
\* the arm64-darwin platform: the purl has no platform qualifier.
C12_Witness ==
    /\ probe.result # None
    /\ is_ok(probe.result[1])
    /\ probe.gem_source = << "nokogiri", "1.16.5", None >>
    /\ probe.gem[1].platform = "arm64-darwin"
    /\ probe.result[1].value.purl = "pkg:gem/nokogiri@1.16.5"

\* C13: whatever the license lookup returns (a known id only, an unknown
\* name only, both, neither), the artifact Gemspec::new builds has at most
\* one license entry, so never a Known and an Unknown entry together: a
\* Known entry for a known id alone, an Unknown entry for an unknown name
\* alone, no entry otherwise.
C13_AtMostOneLicense ==
    probe.gemspec # None =>
        LET known == probe.license_data[1]
            unknown == probe.license_data[2]
            licenses == probe.gemspec[1].licenses
        IN /\ Len(licenses) <= 1
           /\ (known # None /\ unknown = None) =>
                 licenses = << [id |-> known[1]] >>
           /\ (known = None /\ unknown # None) =>
                 licenses = << [name |-> unknown[1]] >>
           /\ (known # None) = (unknown # None) => licenses = << >>

\* C13 witness: the lookup returned both a known id and an unknown name and
\* the artifact was built without a license entry.
C13_Witness ==
    /\ probe.gemspec # None
    /\ probe.license_data = << Some("MIT"), Some("Custom") >>
    /\ probe.gemspec[1].licenses = << >>

\* does the response the middleware handed over carry a JSON object with an
\* items array?
HasItems(final) ==
    /\ final.ok
    /\ final.body.read
    /\ final.body.json
    /\ final.body.items # None

\* C14: for a verification item, a response whose items array is empty
\* gives a result with is_exist false, a response whose items array is not
\* empty a result with is_exist true, and a failed send gives a SendRequest
\* error; the result set check_packages returns holds the results and has
\* no entry for an item that ended in an error.
C14_ExistsIsItemsNotEmpty ==
    /\ \A k \in 1..Len(nexus_results) :
          LET final == nexus_results[k].final
              package == gems[nexus_results[k].src]
              outcome == nexus_results[k].res
          IN /\ (HasItems(final) /\ final.body.items[1] = << >>) =>
                    outcome = Ok(NexusResult(package, FALSE))
             /\ (HasItems(final) /\ final.body.items[1] # << >>) =>
                    outcome = Ok(NexusResult(package, TRUE))
             /\ ~final.ok =>
                    /\ ~is_ok(outcome)
                    /\ outcome.error.kind = "SendRequest"
             /\ pc = "checked" =>
                    IF is_ok(outcome)
                    THEN \E j \in 1..Len(oks) : oks[j] = outcome.value
                    ELSE \A j \in 1..Len(oks) : oks[j].name # package.name
    /\ pc = "checked" =>
          Len(oks) = Cardinality(OkPositions(nexus_results))

\* C14 witness: of two packages one ended in a failed send and one in a
\* response with an empty items array: the result set is the one result,
\* with is_exist false.
C14_Witness ==
    /\ pc = "checked"
    /\ Len(nexus_results) = 2
    /\ \E k \in 1..2 : ~nexus_results[k].final.ok
    /\ \E k \in 1..2 :
          /\ HasItems(nexus_results[k].final)
          /\ nexus_results[k].final.body.items[1] = << >>
    /\ Len(oks) = 1
    /\ ~oks[1].is_exist

\* C15: in the verification stage an item whose attempt ends without a JSON
\* body that has an items array (a failed send, a body that is not JSON, a
\* JSON body without the array) ends as a per-item SendRequest or
\* ParseResponse error, is left out of the result set, and never ends the
\* process: the other items' results are still produced.
C15_ItemErrorsStayPerItem ==
    /\ exit # "panic"
    /\ \A k \in 1..Len(nexus_results) :
          ~HasItems(nexus_results[k].final) =>
              /\ ~is_ok(nexus_results[k].res)
              /\ ErrorKind(nexus_results, k) \in {"SendRequest", "ParseResponse"}
              /\ pc = "checked" =>
                    \A j \in 1..Len(oks) :
                        oks[j].name # gems[nexus_results[k].src].name
    /\ pc = "checked" => Len(nexus_results) = Len(gems)

\* the order of main's positions
StageRank ==
    [p \in {"read_gemfilelock", "get_client", "fetch_gems_info", "fetch_await",
            "fetched", "write_bomfile", "check_nexus_repository",
            "check_await", "checked", "exited"} |->
        CASE p = "read_gemfilelock" -> 0
          [] p = "get_client" -> 1
          [] p = "fetch_gems_info" -> 2
          [] p = "fetch_await" -> 3
          [] p = "fetched" -> 4
          [] p = "write_bomfile" -> 5
          [] p = "check_nexus_repository" -> 6
          [] p = "check_await" -> 7
          [] p = "checked" -> 8
          [] p = "exited" -> 9]

\* the positions at which the verification stage has requests or results
InVerification == pc \in {"check_await", "checked"}

\* C16: main never goes back to an earlier stage; the registry stage is left
\* only when no request is in flight and the outcome of every pinned source
\* is collected, with the resolved list made of those outcomes; the
\* verification stage starts from main's check step with no request in
\* flight, and it works on exactly the resolved list, which does not change
\* once returned and is the list written to the document.
C16_StageOrdering ==
    /\ [][StageRank[pc'] >= StageRank[pc]]_vars
    /\ [][(pc = "fetch_await" /\ pc' # "fetch_await") =>
            /\ pc' = "fetched"
            /\ in_progress = << >>
            /\ Len(gem_specs_results) = Len(specs)
            /\ { gem_specs_results[k].src : k \in 1..Len(specs) }
                  = 1..Len(specs)
            /\ gems' = successes(gem_specs_results)]_vars
    /\ [][(pc # "check_await" /\ pc' = "check_await") =>
            /\ pc = "check_nexus_repository"
            /\ in_progress = << >>]_vars
    /\ [][pc # "fetch_await" => gems' = gems]_vars
    /\ [](pc \in {"read_gemfilelock", "get_client", "fetch_gems_info",
                  "fetch_await", "fetched", "write_bomfile"}
            => nexus_results = << >> /\ oks = << >>)
    /\ [](InVerification =>
            /\ bom_written = Some(bom_file(gems))
            /\ DOMAIN in_progress \subseteq 1..Len(gems)
            /\ stream_pos <= Len(gems)
            /\ \A k \in 1..Len(nexus_results) :
                  /\ nexus_results[k].src \in 1..Len(gems)
                  /\ is_ok(nexus_results[k].res) =>
                        nexus_results[k].res.value.purl
                            = gems[nexus_results[k].src].purl)

\* C16 witness: of two pinned sources one failed; the document holds the one
\* resolved gem and the verification stage has its one request in flight.
C16_Witness ==
    /\ pc = "check_await"
    /\ Len(specs) = 2
    /\ Len(gems) = 1
    /\ bom_written = Some(bom_file(gems))
    /\ DOMAIN in_progress = {1}

\* the failures of main's first two steps
EarlyFailures ==
    {"Err: read_gemfilelock NotFound", "Err: read_gemfilelock PermissionDenied",
     "Err: read_gemfilelock Other", "Err: get_client"}

\* C17: when the lockfile cannot be read or the HTTP client cannot be built,
\* main has ended with that error and nothing else has happened: no registry
\* or repository request was issued, no outcome was collected and no
\* document was written.
C17_FailFast ==
    exit \in EarlyFailures =>
        /\ pc = "exited"
        /\ stream_pos = 0
        /\ in_progress = << >>
        /\ gem_specs_results = << >>
        /\ gems = << >>
        /\ nexus_results = << >>
        /\ oks = << >>
        /\ history = << >>
        /\ bom_written = None
        /\ exit # "Err: get_client" => specs = << >>

\* C17 witness: the lockfile pins two gems and a repository url is given,
\* the client could not be built and main has ended.
C17_Witness ==
    /\ exit = "Err: get_client"
    /\ pc = "exited"
    /\ Len(specs) = 2
    /\ params.nexus_url # None
    /\ bom_written = None

\* the least element of a non-empty set of positions
Lowest(S) == CHOOSE k \in S : \A m \in S : k <= m

\* the positions of a lockfile that hold a package entry of the GEM section:
\* after the first GEM header, before the first other all-capitals header
\* that follows it, at four-space indentation
GemSectionEntries(lines) ==
    LET n == Len(lines)
        headers == { k \in 1..n : gem_section_regexp(lines[k]) }
        start == IF headers = {} THEN n + 1 ELSE Lowest(headers)
        closers == { k \in (start + 1)..n :
                       /\ other_section_regexp(lines[k])
                       /\ ~gem_section_regexp(lines[k]) }
        stop == IF closers = {} THEN n + 1 ELSE Lowest(closers)
    IN { k \in (start + 1)..(stop - 1) : spec_regexp(lines[k]) }

\* C18: parse_gemfile returns the package entries at four-space indentation
\* inside the GEM section, one source per entry, in lockfile order: an entry
\* ahead of the GEM header (a GIT section's specs), a deeper-indented
\* dependency line and every line after the all-capitals header that
\* follows the GEM section add nothing; without a GEM section, or with an
\* empty one, the list is empty.
C18_GemSectionEntries ==
    probe.gems # None =>
        LET lines == probe.gemfile_content
            entries == GemSectionEntries(lines)
            gems_found == probe.gems[1]
        IN /\ Len(gems_found) = Cardinality(entries)
           /\ \A j \in 1..Len(gems_found) :
                 LET k == CHOOSE k \in entries :
                              Cardinality({ m \in entries : m <= k }) = j
                 IN /\ gems_found[j].name = lines[k].word
                    /\ gems_found[j].version = lines[k].paren[1][1][1]
           /\ (\A k \in 1..Len(lines) : ~gem_section_regexp(lines[k]))
                 => gems_found = << >>
           /\ \A k \in 1..Len(lines) :
                 lines[k].indent # 4 =>
                    \A j \in 1..Len(gems_found) :
                        gems_found[j].name # lines[k].word

\* C18 witness: a GEM header, a package entry, the PLATFORMS header and
\* another package entry: the list is the first entry alone.
C18_Witness ==
    /\ probe.gems # None
    /\ Len(probe.gemfile_content) = 4
    /\ gem_section_regexp(probe.gemfile_content[1])
    /\ probe.gemfile_content[2].word = "actioncable"
    /\ probe.gemfile_content[3].word = "PLATFORMS"
    /\ probe.gemfile_content[4].word = "nokogiri"
    /\ probe.gems[1] = << Source("actioncable", "7.0.8.4", None) >>

\* after the k-th attempt of the one item, has the stage at `position` sent
\* the request again?
AttemptFollows(k, position) ==
    \/ k < Len(history)
    \/ /\ k = Len(history)
       /\ pc = position
       /\ in_progress = (1 :> k)

C20_EveryOutcomeRetried ==
    \A k \in 1..Len(NexusHistory) :
        should_retry(history[k].n, NEXUS_MAX_RETRIES)
            => AttemptFollows(k, "check_await")

\* the outcomes the verification stage sends the request again after
NexusRetried(res) ==
    IF res.ok
    THEN (res.status >= 500 /\ res.status <= 599) \/ res.status \in {408, 429}
    ELSE res.error \in {"connect", "timeout"}

\* C20 amended: the verification stage has no exemption of its own, it
\* retries what the middleware takes for transient: while retries are left,
\* an attempt that ended in a 5xx, 408 or 429 response or in a connection or
\* timeout failure is followed by a further attempt, and an attempt that
\* ended in a 2xx response, in another 4xx response (404 included) or in
\* another transport failure is the item's last.
C20_TransientOutcomesRetried ==
    \A k \in 1..Len(NexusHistory) :
        /\ (should_retry(history[k].n, NEXUS_MAX_RETRIES)
               /\ NexusRetried(history[k].res))
              => AttemptFollows(k, "check_await")
        /\ ~NexusRetried(history[k].res) =>
              /\ k = Len(history)
              /\ in_progress = << >>
              /\ pc \in {"check_await", "checked"} =>
                    /\ Len(nexus_results) = 1
                    /\ nexus_results[1].final = history[k].res

\* C20 witness: the repository answered 503, then 429, then 200 with a
\* non-empty items array: the first two attempts were retried and the third
\* ended the item, found in the repository.
C20_Witness ==
    /\ pc = "checked"
    /\ Len(NexusHistory) = 3
    /\ history[1].res.ok /\ history[1].res.status = 503
    /\ history[2].res.ok /\ history[2].res.status = 429
    /\ history[3].res.ok /\ history[3].res.status = 200
    /\ Len(oks) = 1
    /\ oks[1].is_exist

\* C21: a final 200 response whose body is not a JSON array of version
\* descriptors ends its item with a parse-type error (ParseResponse or
\* UnknownError), not with the VersionNotFound of a body that parses and
\* holds no matching entry.
C21_UnparsableBodyIsParseError ==
    \A k \in 1..Len(gem_specs_results) :
        LET final == gem_specs_results[k].final IN
        (final.ok /\ final.status = 200 /\ final.body.read
            /\ ~final.body.json) =>
            /\ ~is_ok(gem_specs_results[k].res)
            /\ ErrorKind(gem_specs_results, k)
                  \in {"ParseResponse", "UnknownError"}

\* the items of the window whose outcome is not collected yet
WindowRemaining == window.total - window.collected

\* C22: the window slides: while a stage is collecting, the number of tasks
\* in flight is the smaller of the ceiling and the number of sources not yet
\* collected; and a completion that leaves unstarted sources starts exactly
\* the next one in the same step, the other tasks still in flight.
C22_SlidingWindow ==
    /\ [](window.phase = "polling" =>
            window.len = IF window.max < WindowRemaining
                         THEN window.max ELSE WindowRemaining)
    /\ [][(window.phase = "polling" /\ window.collected' = window.collected + 1
              /\ window.pos < window.total) =>
            /\ window.pos' = window.pos + 1
            /\ window.len' = window.len
            /\ window.len' = window.max]_vars

\* C22 witness: of 52 sources one is collected: the 51st was started at once
\* and 50 tasks are in flight, 49 of them from the first filling.
C22_Witness ==
    /\ window.phase = "polling"
    /\ window.stage = "registry"
    /\ window.total = 52
    /\ window.collected = 1
    /\ window.pos = 51
    /\ window.len = 50

\* the positions of the output that hold a line of the given kind
LinesOf(kind) == { l \in 1..Len(stdout) : stdout[l].line = kind }

\* is the error of every failed outcome of the list printed?
ErrorsPrinted(results) ==
    \A k \in 1..Len(results) :
        ~is_ok(results[k].res) =>
            \E l \in LinesOf("error") : stdout[l].error = results[k].res.error

\* C23 as claimed: in every run each stage that has collected its outcomes
\* has printed the error of every failed item and, when an item failed, a
\* count of the failures.
C23_EveryFailureReported ==
    /\ pc = "fetched" =>
          /\ ErrorsPrinted(gem_specs_results)
          /\ OkPositions(gem_specs_results) # 1..Len(gem_specs_results)
                => LinesOf("failure count") # {}
    /\ pc = "checked" =>
          /\ ErrorsPrinted(nexus_results)
          /\ OkPositions(nexus_results) # 1..Len(nexus_results)
                => LinesOf("failure count") # {}

\* C23 amended: failures are reported in a verbose run only, and without a
\* count of them: when verbose, a stage that has collected its outcomes has
\* printed one line per failed item, with its error, and the registry stage
\* then the number of gems it resolved; when not verbose, nothing is printed
\* about the items.
C23_FailuresReportedWhenVerbose ==
    /\ LinesOf("failure count") = {}
    /\ (pc = "fetched" /\ params.verbose) =>
          /\ ErrorsPrinted(gem_specs_results)
          /\ Cardinality(LinesOf("error"))
                = Len(gem_specs_results)
                     - Cardinality(OkPositions(gem_specs_results))
          /\ stdout[Len(stdout)]
                = [line |-> "total received", count |-> Len(gems)]
    /\ (pc = "checked" /\ params.verbose) =>
          /\ ErrorsPrinted(nexus_results)
          /\ Cardinality(LinesOf("error"))
                = (Len(specs) - Len(gems)) + (Len(gems) - Len(oks))
    /\ (pc \in {"fetched", "checked"} /\ ~params.verbose) => stdout = << >>

\* C23 witness: a verbose run in which one of two gems failed in the
\* registry stage and the other failed in the verification stage: two error
\* lines are printed.
C23_Witness ==
    /\ pc = "checked"
    /\ params.verbose
    /\ Len(specs) = 2
    /\ Len(gems) = 1
    /\ oks = << >>
    /\ Cardinality(LinesOf("error")) = 2

NotInRepository == { j \in 1..Len(oks) : ~oks[j].is_exist }

\* C25: with a repository url and a verification stage that has returned
\* its result set, the report of check_nexus_repository is the line "All
\* packages exists in nexus repository." exactly when the set has no entry
\* with is_exist false, and otherwise one "not found" line for each such
\* entry and no other; an item whose lookup failed has no entry and no line,
\* so the "all exist" line is also printed when the set is smaller than the
\* list of gems, or empty.  Nothing of the report is printed before.
C25_ReportOfTheResultSet ==
    IF pc = "exited" /\ exit = "Ok" /\ params.nexus_url # None
    THEN /\ (LinesOf("all exist") # {}) = (NotInRepository = {})
         /\ Cardinality(LinesOf("all exist")) <= 1
         /\ Cardinality(LinesOf("not found")) = Cardinality(NotInRepository)
         /\ \A j \in NotInRepository :
               \E l \in LinesOf("not found") : stdout[l].package = oks[j]
         /\ \A l \in LinesOf("not found") :
               \E j \in NotInRepository : stdout[l].package = oks[j]
    ELSE LinesOf("all exist") = {} /\ LinesOf("not found") = {}

\* C25 witness: two gems were resolved and both lookups failed: the result
\* set is empty and the report says that all packages exist.
C25_Witness ==
    /\ pc = "exited"
    /\ exit = "Ok"
    /\ params.nexus_url # None
    /\ Len(gems) = 2
    /\ oks = << >>
    /\ LinesOf("all exist") # {}

====
